---- MODULE Spec2Model ----
(***************************************************************************)
(* FinSight ML service (src/ml-service/main.py): the FastAPI application   *)
(* with GET / and POST /forecast.                                          *)
(*                                                                         *)
(* Timestamps are naive datetimes, counted in ticks: a day has             *)
(* TicksPerDay ticks and day 0 is the calendar day Epoch.  The pandas      *)
(* offsets the handler names ('D', 'W' = week ending Sunday, 'M' = month   *)
(* end, 'Y' = year end) are computed on the proleptic Gregorian calendar.  *)
(* ('M' and 'Y' are read as pandas reads them where it accepts them: the   *)
(* aliases of month end and year end.)  An exception that leaves the       *)
(* handler is answered by the application with 500 Internal Server Error.  *)
(* The forecasting library is a black box: fit() refuses a frame with      *)
(* fewer than 2 non-NaN rows, make_future_dataframe() continues the        *)
(* history's last date, and the numbers predict() returns are a            *)
(* nondeterministic choice.                                                *)
(***************************************************************************)
EXTENDS Integers, Sequences, FiniteSets, TLC

\* ------------------------------------------------------------------ bounds
MaxLen == 3
MaxDay == 2

\* ------------------------------------------------------- program constants
\* A guard that lets a series of two points through.
MinPointsLow == 3 - 1
MinPoints == 3
MinHorizon == 1
MaxHorizon == 12
DefaultHorizon == 1

Periods == {"daily", "weekly", "monthly", "yearly"}
DefaultPeriod == "monthly"

\* ---------------------------------------------------------------- calendar
Tods == {0, 1}
TicksPerDay == Cardinality(Tods)
Epoch == [y |-> 2023, m |-> 12, d |-> 31]

DaysFromCivil(y, m, d) ==
    LET yy  == IF m <= 2 THEN y - 1 ELSE y
        era == yy \div 400
        yoe == yy - era * 400
        mp  == IF m > 2 THEN m - 3 ELSE m + 9
        doy == (153 * mp + 2) \div 5 + d - 1
        doe == yoe * 365 + yoe \div 4 - yoe \div 100 + doy
    IN  era * 146097 + doe - 719468

CivilFromDays(z) ==
    LET zz  == z + 719468
        era == zz \div 146097
        doe == zz - era * 146097
        yoe == (doe - doe \div 1460 + doe \div 36524 - doe \div 146096) \div 365
        doy == doe - (365 * yoe + yoe \div 4 - yoe \div 100)
        mp  == (5 * doy + 2) \div 153
        d   == doy - (153 * mp + 2) \div 5 + 1
        m   == IF mp < 10 THEN mp + 3 ELSE mp - 9
        y   == yoe + era * 400 + (IF m <= 2 THEN 1 ELSE 0)
    IN  [y |-> y, m |-> m, d |-> d]

EpochDays == DaysFromCivil(Epoch.y, Epoch.m, Epoch.d)

\* The civil date of model day n.
Civil(n) == CivilFromDays(EpochDays + n)

\* 0 = Sunday ... 6 = Saturday (1970-01-01 was a Thursday).
Weekday(n) == (EpochDays + n + 4) % 7

Ts(day, tod) == day * TicksPerDay + tod
DayOf(t) == t \div TicksPerDay
TodOf(t) == t % TicksPerDay

\* pandas offsets: the end of the period that holds day n.
WeekEnd(n) == n + ((7 - Weekday(n)) % 7)
MonthEnd(n) ==
    LET c == Civil(n)
        ny == IF c.m = 12 THEN c.y + 1 ELSE c.y
        nm == IF c.m = 12 THEN 1 ELSE c.m + 1
    IN  DaysFromCivil(ny, nm, 1) - 1 - EpochDays
YearEnd(n) == DaysFromCivil(Civil(n).y, 12, 31) - EpochDays

\* The end of the period of offset freq that holds day n ('D': the day itself).
OffsetEnd(freq, n) ==
    CASE freq = "W" -> WeekEnd(n)
      [] freq = "M" -> MonthEnd(n)
      [] freq = "Y" -> YearEnd(n)
      [] OTHER      -> n

\* ------------------------------------------------------------------ inputs
Timestamps == {Ts(d, t) : d \in 0..MaxDay, t \in Tods}
Vals == {2}
SeriesPoint == [date : Timestamps, value : Vals]
AllSeries == UNION {[1..n -> SeriesPoint] : n \in 0..MaxLen}

\* A JSON field is a set: {} when the body omits it, {v} when it gives v.
PeriodInputs == {{p} : p \in Periods \cup {"hourly"}} \cup {{}}
HorizonInputs ==
    {{h} : h \in {MinHorizon - 1, MinHorizon, MaxHorizon, MaxHorizon + 1}} \cup {{}}

ForecastBodies ==
    [route : {"forecast"}, series : AllSeries,
     period : PeriodInputs, horizon : HorizonInputs]

P(day, tod, v) == [date |-> Ts(day, tod), value |-> v]

\* The bodies of the two-worker specification: a frame that loses a point,
\* an unsorted one, a short one and one with a repeated timestamp.
ConcSeries ==
    { <<P(0, 0, 2), P(0, 1, 2), P(1, 0, 2)>>,
      <<P(1, 1, 2), P(0, 1, -1), P(1, 0, 2)>>,
      <<P(0, 0, 2), P(1, 0, 2)>>,
      <<P(0, 0, 2), P(0, 0, -1), P(1, 0, 2)>> }

ConcBodies ==
    [route : {"forecast"}, series : ConcSeries,
     period : {{"daily"}, {"weekly"}, {}}, horizon : {{}, {MinHorizon + 1}}]

RootRequest == [route |-> "root", series |-> <<>>, period |-> {}, horizon |-> {}]
NoRequest == [route |-> "none", series |-> <<>>, period |-> {}, horizon |-> {}]

\* ---------------------------------------------- ForecastRequest (pydantic)
PeriodOf(q) == IF q.period = {} THEN DefaultPeriod ELSE CHOOSE p \in q.period : TRUE
HorizonOf(q) == IF q.horizon = {} THEN DefaultHorizon ELSE CHOOSE h \in q.horizon : TRUE

\* Validation without the upper limit of horizon.
ValidatesNoUpper(q) ==
    /\ PeriodOf(q) \in Periods
    /\ HorizonOf(q) >= MinHorizon

Validates(q) ==
    /\ PeriodOf(q) \in Periods
    /\ HorizonOf(q) >= MinHorizon
    /\ HorizonOf(q) <= MaxHorizon

\* --------------------------------------------------------------- responses
Response(kind, status, body) == [kind |-> kind, status |-> status, body |-> body]
NoResponse == Response("none", 0, <<>>)
Health == Response("health", 200, <<>>)
ValidationError == Response("validation", 422, <<>>)
DependencyError == Response("dependency", 500, <<>>)
InsufficientData == Response("insufficient", 400, <<>>)
InternalError == Response("internal", 500, <<>>)
Ok(out) == Response("ok", 200, out)

\* ------------------------------------------------------------------ pandas
\* A frame is a sequence of rows; na marks a NaN in column y.
Row(ds, y, na) == [ds |-> ds, y |-> y, na |-> na]
NoFrame == <<>>

DataFrame(series) ==
    [i \in 1..Len(series) |-> Row(series[i].date, series[i].value, FALSE)]

RECURSIVE Insert(_, _)
Insert(row, df) ==
    IF df = <<>> THEN <<row>>
    ELSE IF row.ds < Head(df).ds THEN <<row>> \o df
    ELSE <<Head(df)>> \o Insert(row, Tail(df))

RECURSIVE SortValues(_)
SortValues(df) ==
    IF df = <<>> THEN <<>>
    ELSE Insert(df[Len(df)], SortValues(SubSeq(df, 1, Len(df) - 1)))

IndexIsUnique(df) == \A i, j \in 1..Len(df) : df[i].ds = df[j].ds => i = j

\* date_range(start, end, freq='D'): start, start + 1 day, ... up to end.
DateRangeD(lo, hi) ==
    [k \in 1..((hi - lo) \div TicksPerDay + 1) |-> lo + (k - 1) * TicksPerDay]

\* asfreq("D") of a sorted frame with a unique index: reindex on the daily
\* range from the first to the last label; a label the frame lacks is NaN.
AsFreqD(df) ==
    LET idx == DateRangeD(df[1].ds, df[Len(df)].ds)
    IN  [k \in 1..Len(idx) |->
            IF \E i \in 1..Len(df) : df[i].ds = idx[k]
            THEN df[CHOOSE i \in 1..Len(df) : df[i].ds = idx[k]]
            ELSE Row(idx[k], 0, TRUE)]

FillNa(df, v) ==
    [k \in 1..Len(df) |-> IF df[k].na THEN Row(df[k].ds, v, FALSE) ELSE df[k]]

RECURSIVE SumY(_)
SumY(df) == IF df = <<>> THEN 0 ELSE Head(df).y + SumY(Tail(df))

RECURSIVE SelectRows(_, _, _)
SelectRows(df, freq, label) ==
    IF df = <<>> THEN <<>>
    ELSE (IF OffsetEnd(freq, DayOf(Head(df).ds)) = label THEN <<Head(df)>> ELSE <<>>)
         \o SelectRows(Tail(df), freq, label)

RECURSIVE Labels(_, _, _)
Labels(freq, from, to) ==
    IF from > to THEN <<>>
    ELSE <<from>> \o Labels(freq, OffsetEnd(freq, from + 1), to)

\* resample(freq).sum(): one row per period from the first row's to the last
\* row's, labelled by the period's last day at midnight, an empty one summing to 0.
ResampleSum(df, freq) ==
    LET ls == Labels(freq, OffsetEnd(freq, DayOf(df[1].ds)),
                     OffsetEnd(freq, DayOf(df[Len(df)].ds)))
    IN  [k \in 1..Len(ls) |-> Row(Ts(ls[k], 0), SumY(SelectRows(df, freq, ls[k])), FALSE)]

Aggregate(df, period) ==
    IF period = "weekly" THEN ResampleSum(df, "W")
    ELSE IF period = "monthly" THEN ResampleSum(df, "M")
    ELSE IF period = "yearly" THEN ResampleSum(df, "Y")
    ELSE df

FreqOf(period) ==
    IF period = "weekly" THEN "W"
    ELSE IF period = "monthly" THEN "M"
    ELSE IF period = "yearly" THEN "Y"
    ELSE "D"

\* ----------------------------------------------------------------- Prophet
NoModel == [fitted |-> FALSE, last |-> 0]

NonNaNRows(df) == Cardinality({k \in 1..Len(df) : ~df[k].na})

\* fit() raises ValueError on a history with fewer than 2 non-NaN rows.
FitRaises(df) == NonNaNRows(df) < 2

\* The fitted model keeps the history's dates; its last one is all the
\* future frame depends on.
FitModel(df) == [fitted |-> TRUE, last |-> df[Len(df)].ds]

\* date_range(start, periods=n, freq): n dates from the first one at or after
\* start that lies on the offset, each keeping start's time of day.
RECURSIVE DateRange(_, _, _)
DateRange(start, n, freq) ==
    IF n = 0 THEN <<>>
    ELSE LET first == Ts(OffsetEnd(freq, DayOf(start)), TodOf(start))
         IN  <<first>> \o DateRange(first + TicksPerDay, n - 1, freq)

\* A future frame that starts at the history's last date.
MakeFutureWithHistory(m, periods, freq) == DateRange(m.last, periods, freq)

\* make_future_dataframe(periods, freq, include_history=False).
MakeFutureDataframe(m, periods, freq) ==
    LET dates == DateRange(m.last, periods + 1, freq)
        later == SelectSeq(dates, LAMBDA d : d > m.last)
    IN  SubSeq(later, 1, IF Len(later) < periods THEN Len(later) ELSE periods)

\* What predict() may return for the rows of one future frame: a trend
\* a + b * i with the interval yhat - w .. yhat + w.
Forecasts == [a : {-2, 1}, b : {-1, 1}, w : {1}]

Predict(future, f) ==
    [i \in 1..Len(future) |->
        [ds |-> future[i], yhat |-> f.a + f.b * i,
         yhat_lower |-> f.a + f.b * i - f.w, yhat_upper |-> f.a + f.b * i + f.w]]

\* ---------------------------------------------------------------- forecast
\* No clamp.
ClampNone(x) == x

\* max(0.0, x)
Clamp(x) == IF x > 0 THEN x ELSE 0

ForecastPoint(row) ==
    [date |-> row.ds, yhat |-> Clamp(row.yhat),
     yhat_lower |-> Clamp(row.yhat_lower), yhat_upper |-> Clamp(row.yhat_upper)]

BuildOut(fcst) == [i \in 1..Len(fcst) |-> ForecastPoint(fcst[i])]

\* ------------------------------------------------------------------- state
Slots == {1, 2}

VARIABLES
    Prophet,    \* the module binding: TRUE the imported class, FALSE None
    pc,         \* per worker: where its request stands
    req,        \* per worker: the request body it serves
    df,         \* per worker: the handler's local frame
    model,      \* per worker: the handler's local model
    fcst,       \* per worker: the handler's local forecast frame
    resp,       \* per worker: the response sent
    calls       \* per worker: the pandas/Prophet calls made for the request

vars == <<Prophet, pc, req, df, model, fcst, resp, calls>>

Init ==
    /\ Prophet \in BOOLEAN
    /\ pc = [r \in Slots |-> "idle"]
    /\ req = [r \in Slots |-> NoRequest]
    /\ df = [r \in Slots |-> NoFrame]
    /\ model = [r \in Slots |-> NoModel]
    /\ fcst = [r \in Slots |-> NoFrame]
    /\ resp = [r \in Slots |-> NoResponse]
    /\ calls = [r \in Slots |-> {}]

\* One model object shared by the workers.
ModelShared(r) == model[1]

\* The handler's local `model` of worker r.
ModelOf(r) == model[r]

Reply(r, response) ==
    /\ resp' = [resp EXCEPT ![r] = response]
    /\ pc' = [pc EXCEPT ![r] = "done"]

\* GET /
Root(r) ==
    /\ pc[r] = "idle"
    /\ req' = [req EXCEPT ![r] = RootRequest]
    /\ Reply(r, Health)
    /\ UNCHANGED <<Prophet, df, model, fcst, calls>>

\* POST /forecast: the body is parsed into a ForecastRequest before the
\* handler is entered; a body that does not validate is answered 422.
Receive(r, bodies) ==
    /\ pc[r] = "idle"
    /\ \E q \in bodies :
        /\ req' = [req EXCEPT ![r] = q]
        /\ IF Validates(q)
           THEN /\ pc' = [pc EXCEPT ![r] = "handler"]
                /\ UNCHANGED resp
           ELSE Reply(r, ValidationError)
    /\ UNCHANGED <<Prophet, df, model, fcst, calls>>

\* The guards with the length checked before the library.
GuardsLengthFirst(r) ==
    /\ pc[r] = "handler"
    /\ IF Len(req[r].series) < MinPoints
       THEN Reply(r, InsufficientData)
       ELSE IF ~Prophet
       THEN Reply(r, DependencyError)
       ELSE /\ pc' = [pc EXCEPT ![r] = "prepare"]
            /\ UNCHANGED resp
    /\ UNCHANGED <<Prophet, req, df, model, fcst, calls>>

\* The two guards at the head of the handler.
Guards(r) ==
    /\ pc[r] = "handler"
    /\ IF ~Prophet
       THEN Reply(r, DependencyError)
       ELSE IF Len(req[r].series) < MinPoints
       THEN Reply(r, InsufficientData)
       ELSE /\ pc' = [pc EXCEPT ![r] = "prepare"]
            /\ UNCHANGED resp
    /\ UNCHANGED <<Prophet, req, df, model, fcst, calls>>

\* Prepare dataframe, aggregate to the requested frequency.  reindexing a
\* frame with a repeated label raises ValueError, which the application
\* answers with 500 Internal Server Error.
Prepare(r) ==
    /\ pc[r] = "prepare"
    /\ LET sorted == SortValues(DataFrame(req[r].series))
       IN  IF ~IndexIsUnique(sorted)
           THEN /\ Reply(r, InternalError)
                /\ calls' = [calls EXCEPT ![r] = @ \cup {"asfreq"}]
                /\ UNCHANGED df
           ELSE /\ df' = [df EXCEPT ![r] =
                            Aggregate(FillNa(AsFreqD(sorted), 0), PeriodOf(req[r]))]
                /\ calls' = [calls EXCEPT ![r] = @ \cup {"asfreq"} \cup
                        (IF PeriodOf(req[r]) = "daily" THEN {} ELSE {"resample"})]
                /\ pc' = [pc EXCEPT ![r] = "fit"]
                /\ UNCHANGED resp
    /\ UNCHANGED <<Prophet, req, model, fcst>>

\* Fit Prophet.
Fit(r) ==
    /\ pc[r] = "fit"
    /\ calls' = [calls EXCEPT ![r] = @ \cup {"fit"}]
    /\ IF FitRaises(df[r])
       THEN /\ Reply(r, InternalError)
            /\ UNCHANGED model
       ELSE /\ model' = [model EXCEPT ![r] = FitModel(df[r])]
            /\ pc' = [pc EXCEPT ![r] = "predict"]
            /\ UNCHANGED resp
    /\ UNCHANGED <<Prophet, req, df, fcst>>

\* Build future frame, predict, clamp.
Forecast(r) ==
    /\ pc[r] = "predict"
    /\ calls' = [calls EXCEPT ![r] = @ \cup {"predict"}]
    /\ \E f \in Forecasts :
        LET future == MakeFutureDataframe(ModelOf(r), HorizonOf(req[r]),
                                          FreqOf(PeriodOf(req[r])))
        IN  /\ fcst' = [fcst EXCEPT ![r] = Predict(future, f)]
            /\ Reply(r, Ok(BuildOut(Predict(future, f))))
    /\ UNCHANGED <<Prophet, req, df, model>>

\* The response is sent and the handler's locals are gone.
Finish(r) ==
    /\ pc[r] = "done"
    /\ pc' = [pc EXCEPT ![r] = "idle"]
    /\ req' = [req EXCEPT ![r] = NoRequest]
    /\ df' = [df EXCEPT ![r] = NoFrame]
    /\ model' = [model EXCEPT ![r] = NoModel]
    /\ fcst' = [fcst EXCEPT ![r] = NoFrame]
    /\ resp' = [resp EXCEPT ![r] = NoResponse]
    /\ calls' = [calls EXCEPT ![r] = {}]
    /\ UNCHANGED Prophet

Step(r, bodies) ==
    \/ Root(r)
    \/ Receive(r, bodies)
    \/ Guards(r)
    \/ Prepare(r)
    \/ Fit(r)
    \/ Forecast(r)
    \/ Finish(r)

\* One worker, every body.
Next == Step(1, ForecastBodies)
Spec == Init /\ [][Next]_vars

\* Two workers (the threadpool runs sync handlers concurrently).
NextConc == \E r \in Slots : Step(r, ConcBodies)
SpecConc == Init /\ [][NextConc]_vars

\* ------------------------------------------------------------- the handler
\* What forecast() answers to body q, as one function of q and of the
\* library's availability: its kind, its status and its timestamps.
Outcome(q, avail) ==
    LET shape(kind, status, dates) == [kind |-> kind, status |-> status, dates |-> dates]
        sorted == SortValues(DataFrame(q.series))
        frame  == Aggregate(FillNa(AsFreqD(sorted), 0), PeriodOf(q))
    IN  IF q.route = "root" THEN shape("health", 200, <<>>)
        ELSE IF ~Validates(q) THEN shape("validation", 422, <<>>)
        ELSE IF ~avail THEN shape("dependency", 500, <<>>)
        ELSE IF Len(q.series) < MinPoints THEN shape("insufficient", 400, <<>>)
        ELSE IF ~IndexIsUnique(sorted) THEN shape("internal", 500, <<>>)
        ELSE IF FitRaises(frame) THEN shape("internal", 500, <<>>)
        ELSE shape("ok", 200,
                   MakeFutureDataframe(FitModel(frame), HorizonOf(q), FreqOf(PeriodOf(q))))

Shape(response) ==
    [kind |-> response.kind, status |-> response.status,
     dates |-> [i \in 1..Len(response.body) |-> response.body[i].date]]

\* ------------------------------------------------------------------ claims
Served(r) == pc[r] = "done" /\ req[r].route = "forecast"
Short(r) == Len(req[r].series) < 3
IsSorted(series) == \A i, j \in 1..Len(series) : i < j => series[i].date <= series[j].date
IsMonthEnd(t) == TodOf(t) = 0 /\ Civil(DayOf(t) + 1).d = 1

\* C1 as stated: every /forecast request whose series has fewer than 3 points
\* is answered with the insufficient-data error, status 400, whatever the
\* period, the horizon and the availability of the library.
C1_ShortSeriesAlways400 ==
    \A r \in Slots : Served(r) /\ Short(r) => resp[r] = InsufficientData

\* C1 amended: a /forecast request that validates and whose series has fewer
\* than 3 points is answered with the insufficient-data error, status 400,
\* when the library is available.
C1_ShortSeries400 ==
    \A r \in Slots :
        Served(r) /\ Short(r) /\ Validates(req[r]) /\ Prophet
            => resp[r] = InsufficientData /\ resp[r].status = 400

C1_Witness ==
    \E r \in Slots :
        /\ Served(r) /\ Validates(req[r]) /\ Prophet
        /\ Len(req[r].series) = 2
        /\ resp[r].status = 400

\* C2: every valid /forecast request (at least 3 points, a valid period, a
\* horizon in 1..12, the library available) is answered with a successful
\* list of exactly `horizon` points.
C2_ValidRequestSucceeds ==
    \A r \in Slots :
        Served(r) /\ Validates(req[r]) /\ ~Short(r) /\ Prophet
            => resp[r].kind = "ok" /\ Len(resp[r].body) = HorizonOf(req[r])

\* C3: in every successful response every point has yhat, yhat_lower and
\* yhat_upper >= 0, whatever the library predicted.
C3_NonNegative ==
    \A r \in Slots :
        resp[r].kind = "ok" =>
            \A i \in 1..Len(resp[r].body) :
                /\ resp[r].body[i].yhat >= 0
                /\ resp[r].body[i].yhat_lower >= 0
                /\ resp[r].body[i].yhat_upper >= 0

C3_Witness ==
    \E r \in Slots :
        /\ resp[r].kind = "ok"
        /\ \E i \in 1..Len(fcst[r]) :
            /\ fcst[r][i].yhat < 0 /\ resp[r].body[i].yhat = 0
            /\ fcst[r][i].yhat_upper < 0 /\ resp[r].body[i].yhat_upper = 0

\* C4: in every successful response the timestamps strictly increase in list
\* order and every one is strictly later than the latest input timestamp.
C4_FutureDatesAscend ==
    \A r \in Slots :
        resp[r].kind = "ok" =>
            /\ \A i, j \in 1..Len(resp[r].body) :
                i < j => resp[r].body[i].date < resp[r].body[j].date
            /\ \A i \in 1..Len(resp[r].body) : \A k \in 1..Len(req[r].series) :
                resp[r].body[i].date > req[r].series[k].date

C4_Witness ==
    \E r \in Slots :
        /\ resp[r].kind = "ok"
        /\ Len(resp[r].body) = 12
        /\ PeriodOf(req[r]) = "daily"
        /\ ~IsSorted(req[r].series)
        /\ \E k \in 1..Len(req[r].series) :
            /\ TodOf(req[r].series[k].date) # 0
            /\ \A j \in 1..Len(req[r].series) : req[r].series[j].date <= req[r].series[k].date
            /\ req[r].series[k].date > model[r].last

\* C5, on the requests that validate: every such /forecast request ends in a
\* successful list, the dependency-unavailable error or the insufficient-data
\* error, and in no other error kind.
C5_ThreeOutcomes ==
    \A r \in Slots :
        Served(r) /\ Validates(req[r])
            => resp[r].kind \in {"ok", "dependency", "insufficient"}

\* C6: with Prophet None every /forecast request that validates is answered
\* with the dependency-unavailable error, status 500, whatever its series
\* length, no resample, fit or predict is performed, and GET / answers ok.
C6_NoLibrary ==
    ~Prophet =>
        \A r \in Slots :
            /\ Served(r) /\ Validates(req[r])
                => resp[r] = DependencyError /\ resp[r].status = 500
            /\ calls[r] = {} /\ df[r] = NoFrame /\ model[r] = NoModel
            /\ pc[r] \notin {"prepare", "fit", "predict"}
            /\ pc[r] = "done" /\ req[r].route = "root" => resp[r] = Health

C6_Witness ==
    /\ ~Prophet
    /\ \E r \in Slots :
        Served(r) /\ Validates(req[r]) /\ Short(r) /\ resp[r].status = 500

\* C7: no request writes the module's Prophet binding, and the kind, the
\* length and the timestamps of a response are those its own request and the
\* library's availability determine, whatever the other worker does.
C7_Stateless ==
    /\ [](\A r \in Slots : pc[r] = "done" => Shape(resp[r]) = Outcome(req[r], Prophet))
    /\ [][Prophet' = Prophet]_vars

C7_Witness ==
    /\ pc[1] = "done" /\ pc[2] = "done"
    /\ resp[1].kind = "ok" /\ resp[2].kind = "ok"
    /\ Len(resp[1].body) # Len(resp[2].body)
    /\ Shape(resp[1]).dates[1] # Shape(resp[2]).dates[1]

\* C8: a /forecast request whose horizon is outside 1..12 or whose period is
\* not one of the four is answered at validation and never reaches fit or
\* predict; a request that omits both is handled as monthly with horizon 1,
\* so its successful response is one point, at a month end.
C8_Validation ==
    \A r \in Slots :
        /\ req[r].route = "forecast"
           /\ (HorizonOf(req[r]) \notin 1..12 \/ PeriodOf(req[r]) \notin {"daily", "weekly", "monthly", "yearly"})
            => pc[r] = "done" /\ resp[r] = ValidationError /\ calls[r] = {}
        /\ req[r].route = "forecast" /\ req[r].period = {} /\ req[r].horizon = {}
           /\ resp[r].kind = "ok"
            => /\ Len(resp[r].body) = 1
               /\ IsMonthEnd(resp[r].body[1].date)
               /\ \A k \in 1..Len(df[r]) : IsMonthEnd(df[r][k].ds)

C8_Witness ==
    \E r \in Slots :
        /\ req[r].route = "forecast" /\ req[r].period = {} /\ req[r].horizon = {}
        /\ resp[r].kind = "ok" /\ Len(resp[r].body) = 1

\* C9: the sum of the y values of the frame passed to the model equals the
\* sum of all input values.
C9_SumConserved ==
    \A r \in Slots :
        pc[r] = "fit" => SumY(df[r]) = SumY(DataFrame(req[r].series))

\* C10: whenever the handler reaches model.fit, the frame it passes has at
\* least 3 rows.
C10_FrameHasMinPoints ==
    \A r \in Slots : pc[r] = "fit" => Len(df[r]) >= 3
====
